---- MODULE Spec2Model ----
(***************************************************************************)
(* Model of cloudformation_cli_python_lib/metrics.py: the CloudWatch       *)
(* metric publishers (MetricsPublisher, HookMetricsPublisher) and the      *)
(* fan-out MetricsPublisherProxy.                                          *)
(*                                                                         *)
(* Python strings that the code transforms (type names, account ids,       *)
(* namespaces) are sequences of one-character strings, so str.replace and  *)
(* f-string concatenation are computed character by character.  Strings    *)
(* that the code only passes through (enum member names, dimension keys)   *)
(* are TLA+ strings.  Floats are the integers they denote (1.0 is 1).      *)
(***************************************************************************)
EXTENDS Integers, Sequences, FiniteSets, TLC

VARIABLES
    _publishers,  \* MetricsPublisherProxy._publishers, in registration order
    sink,         \* put_metric_data calls made by the last proxy operation
    LOG,          \* LOG.error records emitted by the last proxy operation
    last          \* the last proxy operation: name, arguments, how it ended

vars == <<_publishers, sink, LOG, last>>

\* ------------------------------------------------------------------ bounds
\* The proxy's list is unbounded in the code; registrations stop here.
MaxPublishers == 2

\* ------------------------------------------------------------ input values
\* Optional[str]: None, or a string (possibly the empty one).
None == [some |-> FALSE, val |-> <<>>]

Some(s) == [some |-> TRUE, val |-> s]

\* type names and account ids the proxy is driven with: "A::B"; "1", "2"
TypeNames == { <<"A", ":", ":", "B">> }

AccountIds == { <<"1">>, <<"2">> }

OptTypeNames == {None, Some(<<>>)} \cup {Some(t) : t \in TypeNames}

OptAccountIds == {None, Some(<<>>)} \cup {Some(a) : a \in AccountIds}

\* hook types and account ids the namespace derivation is driven with
\* (any str is accepted by the code): "A::B", "A/B", "B"; "1", "2", "1/A"
HookTypeNames == { <<"A", ":", ":", "B">>, <<"A", "/", "B">>, <<"B">> }

HookAccountIds == { <<"1">>, <<"2">>, <<"1", "/", "A">> }

OptHookTypeNames == {None} \cup {Some(t) : t \in HookTypeNames}

OptHookAccountIds == {None} \cup {Some(a) : a \in HookAccountIds}

\* Optional[SessionProxy]: the string "None", or a session object.
OptSessions == {"None", "session"}

\* Union[Action, HookInvocationPoint] members, as the proxy's callers pass them.
Actions == { [enum |-> "Action", name |-> "CREATE"],
             [enum |-> "HookInvocationPoint", name |-> "CREATE_PRE_PROVISION"] }

\* milliseconds arguments of publish_duration_metric
Milliseconds == {0, 250}

\* error arguments: an exception object has a runtime type and a message
Errors == { [type |-> "ValueError", message |-> "boom"] }

Timestamps == { [year |-> 2020] }

\* What one put_metric_data call does: returns, raises botocore's ClientError,
\* or raises any other exception.
Outcomes == {"ok", "ClientError", "OtherError"}

\* --------------------------------------------------------- Python helpers
\* "x is not None" in place of bool(x): the empty string counts as present.
Truthy_not_none(x) == x.some

\* bool(x) for an Optional[str]: None and "" are falsy.
Truthy(x) == x.some /\ Len(x.val) > 0

\* bool(session) for an Optional[SessionProxy].
SessionTruthy(session) == session # "None"

\* s.replace("::", "/"): leftmost, non-overlapping occurrences.
RECURSIVE str_replace(_)
str_replace(s) ==
    IF Len(s) = 0 THEN <<>>
    ELSE IF Len(s) >= 2 /\ s[1] = ":" /\ s[2] = ":"
         THEN <<"/">> \o str_replace(SubSeq(s, 3, Len(s)))
         ELSE <<s[1]>> \o str_replace(Tail(s))

\* str(type(error))
str_type(error) == <<"<class '", error.type, "'>">>

\* str(timestamp)
str_timestamp(timestamp) == <<"str", timestamp.year>>

\* "AWS/CloudFormation"
METRIC_NAMESPACE_ROOT ==
    <<"A", "W", "S", "/", "C", "l", "o", "u", "d",
      "F", "o", "r", "m", "a", "t", "i", "o", "n">>

\* A dict literal is its items in insertion order: a sequence of <<key, value>>.
format_dimensions(dimensions) ==
    [i \in 1..Len(dimensions) |->
        [Name |-> dimensions[i][1], Value |-> dimensions[i][2]]]

\* session.client("cloudwatch")
session_client(session) == [session |-> session, service |-> "cloudwatch"]

\* enum members of interface.py, as metrics.py names them
MetricTypes_HandlerException == [enum |-> "MetricTypes", name |-> "HandlerException"]

MetricTypes_HandlerInvocationCount ==
    [enum |-> "MetricTypes", name |-> "HandlerInvocationCount"]

MetricTypes_HandlerInvocationDuration ==
    [enum |-> "MetricTypes", name |-> "HandlerInvocationDuration"]

StandardUnit_Count == [enum |-> "StandardUnit", name |-> "Count"]

StandardUnit_Milliseconds == [enum |-> "StandardUnit", name |-> "Milliseconds"]

\* -------------------------------------------------------- MetricsPublisher
_make_namespace(resource_type) ==
    LET suffix == str_replace(resource_type)
    IN  METRIC_NAMESPACE_ROOT \o <<"/">> \o suffix

MetricsPublisher_init(session, resource_type) ==
    [class          |-> "MetricsPublisher",
     _client        |-> session_client(session),
     _resource_type |-> resource_type,
     _namespace     |-> _make_namespace(resource_type)]

\* publish_metric without its except clause: ClientError leaves it too.
publish_metric_uncaught(self, metric_name, dimensions, unit, value, timestamp, outcome) ==
    LET call == [client     |-> self._client,
                 Namespace  |-> self._namespace,
                 MetricData |-> << [MetricName |-> metric_name.name,
                                    Dimensions |-> format_dimensions(dimensions),
                                    Unit       |-> unit.name,
                                    Timestamp  |-> str_timestamp(timestamp),
                                    Value      |-> value] >>,
                 outcome    |-> outcome]
    IN  [calls |-> <<call>>, logs |-> <<>>,
         result |-> IF outcome = "ok" THEN "returned" ELSE "raised"]

\* publish_metric with "except Exception": every error is logged and dropped.
publish_metric_catch_all(self, metric_name, dimensions, unit, value, timestamp, outcome) ==
    LET call == [client     |-> self._client,
                 Namespace  |-> self._namespace,
                 MetricData |-> << [MetricName |-> metric_name.name,
                                    Dimensions |-> format_dimensions(dimensions),
                                    Unit       |-> unit.name,
                                    Timestamp  |-> str_timestamp(timestamp),
                                    Value      |-> value] >>,
                 outcome    |-> outcome]
        entry == [level |-> "error",
                  msg   |-> "An error occurred while publishing metrics: %s",
                  arg   |-> outcome]
    IN  [calls |-> <<call>>,
         logs |-> IF outcome = "ok" THEN <<>> ELSE <<entry>>,
         result |-> "returned"]

\* publish_metric that swallows every error without a log record.
publish_metric_silent(self, metric_name, dimensions, unit, value, timestamp, outcome) ==
    LET call == [client     |-> self._client,
                 Namespace  |-> self._namespace,
                 MetricData |-> << [MetricName |-> metric_name.name,
                                    Dimensions |-> format_dimensions(dimensions),
                                    Unit       |-> unit.name,
                                    Timestamp  |-> str_timestamp(timestamp),
                                    Value      |-> value] >>,
                 outcome    |-> outcome]
    IN  [calls |-> <<call>>, logs |-> <<>>, result |-> "returned"]

\* publish_metric that calls the sink a second time after a ClientError.
publish_metric_retry(self, metric_name, dimensions, unit, value, timestamp, outcome) ==
    LET call == [client     |-> self._client,
                 Namespace  |-> self._namespace,
                 MetricData |-> << [MetricName |-> metric_name.name,
                                    Dimensions |-> format_dimensions(dimensions),
                                    Unit       |-> unit.name,
                                    Timestamp  |-> str_timestamp(timestamp),
                                    Value      |-> value] >>,
                 outcome    |-> outcome]
        entry == [level |-> "error",
                  msg   |-> "An error occurred while publishing metrics: %s",
                  arg   |-> outcome]
    IN  CASE outcome = "ok" ->
               [calls |-> <<call>>, logs |-> <<>>, result |-> "returned"]
          [] outcome = "ClientError" ->
               [calls |-> <<call, call>>, logs |-> <<entry>>, result |-> "returned"]
          [] OTHER ->
               [calls |-> <<call>>, logs |-> <<>>, result |-> "raised"]

\* One execution of publish_metric, given what the sink call does.  The result
\* is what the execution did: the sink calls it made, the log records it
\* emitted, and whether it returned or raised.
publish_metric(self, metric_name, dimensions, unit, value, timestamp, outcome) ==
    LET call == [client     |-> self._client,
                 Namespace  |-> self._namespace,
                 MetricData |-> << [MetricName |-> metric_name.name,
                                    Dimensions |-> format_dimensions(dimensions),
                                    Unit       |-> unit.name,
                                    Timestamp  |-> str_timestamp(timestamp),
                                    Value      |-> value] >>,
                 outcome    |-> outcome]
    IN  CASE outcome = "ok" ->
               [calls |-> <<call>>, logs |-> <<>>, result |-> "returned"]
          [] outcome = "ClientError" ->
               [calls  |-> <<call>>,
                logs   |-> << [level |-> "error",
                               msg   |-> "An error occurred while publishing metrics: %s",
                               arg   |-> outcome] >>,
                result |-> "returned"]
          [] OTHER ->
               [calls |-> <<call>>, logs |-> <<>>, result |-> "raised"]

MetricsPublisher_publish_exception_metric(self, timestamp, action, error, outcome) ==
    LET dimensions == << <<"DimensionKeyActionType", action.name>>,
                         <<"DimensionKeyExceptionType", str_type(error)>>,
                         <<"DimensionKeyResourceType", self._resource_type>> >>
    IN  publish_metric(self, MetricTypes_HandlerException, dimensions,
                       StandardUnit_Count, 1, timestamp, outcome)

MetricsPublisher_publish_invocation_metric(self, timestamp, action, outcome) ==
    LET dimensions == << <<"DimensionKeyActionType", action.name>>,
                         <<"DimensionKeyResourceType", self._resource_type>> >>
    IN  publish_metric(self, MetricTypes_HandlerInvocationCount, dimensions,
                       StandardUnit_Count, 1, timestamp, outcome)

MetricsPublisher_publish_duration_metric(self, timestamp, action, milliseconds, outcome) ==
    LET dimensions == << <<"DimensionKeyActionType", action.name>>,
                         <<"DimensionKeyResourceType", self._resource_type>> >>
    IN  publish_metric(self, MetricTypes_HandlerInvocationDuration, dimensions,
                       StandardUnit_Milliseconds, milliseconds, timestamp, outcome)

MetricsPublisher_publish_log_delivery_exception_metric(self, timestamp, error, outcome) ==
    LET dimensions == << <<"DimensionKeyActionType", "ProviderLogDelivery">>,
                         <<"DimensionKeyExceptionType", str_type(error)>>,
                         <<"DimensionKeyResourceType", self._resource_type>> >>
    IN  publish_metric(self, MetricTypes_HandlerException, dimensions,
                       StandardUnit_Count, 1, timestamp, outcome)

\* ---------------------------------------------------- HookMetricsPublisher
\* _make_hook_namespace that leaves the account id out.
_make_hook_namespace_no_account(hook_type, account_id) ==
    LET suffix == str_replace(hook_type)
    IN  METRIC_NAMESPACE_ROOT \o <<"/">> \o suffix

_make_hook_namespace(hook_type, account_id) ==
    LET suffix == str_replace(hook_type)
    IN  METRIC_NAMESPACE_ROOT \o <<"/">> \o account_id \o <<"/">> \o suffix

\* HookMetricsPublisher.__init__ without its own _namespace assignment.
HookMetricsPublisher_init_inherited(session, hook_type, account_id) ==
    LET base == MetricsPublisher_init(session, hook_type)
    IN  [class          |-> "HookMetricsPublisher",
         _client        |-> base._client,
         _resource_type |-> base._resource_type,
         _hook_type     |-> hook_type,
         _account_id    |-> account_id,
         _namespace     |-> base._namespace]

\* super().__init__(session, hook_type), then the three assignments.
HookMetricsPublisher_init(session, hook_type, account_id) ==
    LET base == MetricsPublisher_init(session, hook_type)
    IN  [class          |-> "HookMetricsPublisher",
         _client        |-> base._client,
         _resource_type |-> base._resource_type,
         _hook_type     |-> hook_type,
         _account_id    |-> account_id,
         _namespace     |-> _make_hook_namespace(hook_type, account_id)]

HookMetricsPublisher_publish_exception_metric(self, timestamp, invocation_point, error, outcome) ==
    LET dimensions == << <<"DimensionKeyInvocationPointType", invocation_point.name>>,
                         <<"DimensionKeyExceptionType", str_type(error)>>,
                         <<"DimensionKeyHookType", self._hook_type>> >>
    IN  publish_metric(self, MetricTypes_HandlerException, dimensions,
                       StandardUnit_Count, 1, timestamp, outcome)

HookMetricsPublisher_publish_invocation_metric(self, timestamp, invocation_point, outcome) ==
    LET dimensions == << <<"DimensionKeyInvocationPointType", invocation_point.name>>,
                         <<"DimensionKeyHookType", self._hook_type>> >>
    IN  publish_metric(self, MetricTypes_HandlerInvocationCount, dimensions,
                       StandardUnit_Count, 1, timestamp, outcome)

\* The hook duration metric built with the standard publisher's keys.
HookMetricsPublisher_publish_duration_metric_std_keys(self, timestamp, invocation_point, milliseconds, outcome) ==
    LET dimensions == << <<"DimensionKeyActionType", invocation_point.name>>,
                         <<"DimensionKeyResourceType", self._hook_type>> >>
    IN  publish_metric(self, MetricTypes_HandlerInvocationDuration, dimensions,
                       StandardUnit_Milliseconds, milliseconds, timestamp, outcome)

HookMetricsPublisher_publish_duration_metric(self, timestamp, invocation_point, milliseconds, outcome) ==
    LET dimensions == << <<"DimensionKeyInvocationPointType", invocation_point.name>>,
                         <<"DimensionKeyHookType", self._hook_type>> >>
    IN  publish_metric(self, MetricTypes_HandlerInvocationDuration, dimensions,
                       StandardUnit_Milliseconds, milliseconds, timestamp, outcome)

HookMetricsPublisher_publish_log_delivery_exception_metric(self, timestamp, error, outcome) ==
    LET dimensions == << <<"DimensionKeyInvocationPointType", "ProviderLogDelivery">>,
                         <<"DimensionKeyExceptionType", str_type(error)>>,
                         <<"DimensionKeyHookType", self._hook_type>> >>
    IN  publish_metric(self, MetricTypes_HandlerException, dimensions,
                       StandardUnit_Count, 1, timestamp, outcome)

\* --------------------------------------------------- MetricsPublisherProxy
\* publisher.<op>(...): Python dispatches on the publisher's class.
Dispatch(publisher, call, outcome) ==
    LET hook == publisher.class = "HookMetricsPublisher"
    IN  CASE call.op = "publish_exception_metric" ->
               IF hook
               THEN HookMetricsPublisher_publish_exception_metric(
                        publisher, call.timestamp, call.action, call.error, outcome)
               ELSE MetricsPublisher_publish_exception_metric(
                        publisher, call.timestamp, call.action, call.error, outcome)
          [] call.op = "publish_invocation_metric" ->
               IF hook
               THEN HookMetricsPublisher_publish_invocation_metric(
                        publisher, call.timestamp, call.action, outcome)
               ELSE MetricsPublisher_publish_invocation_metric(
                        publisher, call.timestamp, call.action, outcome)
          [] call.op = "publish_duration_metric" ->
               IF hook
               THEN HookMetricsPublisher_publish_duration_metric(
                        publisher, call.timestamp, call.action, call.milliseconds, outcome)
               ELSE MetricsPublisher_publish_duration_metric(
                        publisher, call.timestamp, call.action, call.milliseconds, outcome)
          [] call.op = "publish_log_delivery_exception_metric" ->
               IF hook
               THEN HookMetricsPublisher_publish_log_delivery_exception_metric(
                        publisher, call.timestamp, call.error, outcome)
               ELSE MetricsPublisher_publish_log_delivery_exception_metric(
                        publisher, call.timestamp, call.error, outcome)

\* The records of publisher number i, marked with that number.
Tag(records, i) ==
    [k \in 1..Len(records) |-> [publisher |-> i, record |-> records[k]]]

\* "for publisher in self._publishers: publisher.<op>(...)" from publisher i on,
\* where trace is what the earlier iterations did.  outcomes[i] is what the
\* sink of publisher i does if it is called.  An exception raised by a
\* publisher ends the loop and leaves the proxy method.
\* The loop with a "return" in its body: only the first publisher is called.
for_publisher_in_first(publishers, i, call, outcomes, trace) ==
    IF i > Len(publishers)
    THEN trace
    ELSE LET r == Dispatch(publishers[i], call, outcomes[i])
         IN  [sink    |-> trace.sink \o Tag(r.calls, i),
              LOG     |-> trace.LOG \o Tag(r.logs, i),
              returns |-> Append(trace.returns, r.result),
              result  |-> r.result]

RECURSIVE for_publisher_in(_, _, _, _, _)
for_publisher_in(publishers, i, call, outcomes, trace) ==
    IF i > Len(publishers)
    THEN trace
    ELSE LET r == Dispatch(publishers[i], call, outcomes[i])
             t == [sink    |-> trace.sink \o Tag(r.calls, i),
                   LOG     |-> trace.LOG \o Tag(r.logs, i),
                   returns |-> Append(trace.returns, r.result),
                   result  |-> r.result]
         IN  IF r.result = "raised"
             THEN t
             ELSE for_publisher_in(publishers, i + 1, call, outcomes, t)

\* A proxy method that has called no publisher yet.
NoTrace == [sink |-> <<>>, LOG |-> <<>>, returns |-> <<>>, result |-> "returned"]

\* The state after one proxy publish method has run.
Published(call, outcomes) ==
    \E t \in {for_publisher_in(_publishers, 1, call, outcomes, NoTrace)} :
        /\ sink' = t.sink
        /\ LOG' = t.LOG
        /\ last' = [call |-> call, result |-> t.result, returns |-> t.returns]
        /\ UNCHANGED _publishers

\* The state after one registration method has run.
Registered(call, publishers) ==
    /\ Len(publishers) <= MaxPublishers
    /\ _publishers' = publishers
    /\ sink' = <<>>
    /\ LOG' = <<>>
    /\ last' = [call |-> call, result |-> "returned", returns |-> <<>>]

\* "if session and type_name:"
add_metrics_publisher_guard(session, type_name) ==
    SessionTruthy(session) /\ Truthy(type_name)

\* "if session and type_name:" in the hook registration: no account_id test.
add_hook_metrics_publisher_guard_no_account(session, type_name, account_id) ==
    SessionTruthy(session) /\ Truthy(type_name)

\* "if session and type_name and account_id:"
add_hook_metrics_publisher_guard(session, type_name, account_id) ==
    SessionTruthy(session) /\ Truthy(type_name) /\ Truthy(account_id)

add_metrics_publisher ==
    \E session \in OptSessions, type_name \in OptTypeNames :
        LET call == [op |-> "add_metrics_publisher",
                     session |-> session, type_name |-> type_name]
        IN  IF add_metrics_publisher_guard(session, type_name)
            THEN LET publisher == MetricsPublisher_init(session, type_name.val)
                 IN  Registered(call, Append(_publishers, publisher))
            ELSE Registered(call, _publishers)

add_hook_metrics_publisher_from(sessions, type_names, account_ids) ==
    \E session \in sessions, type_name \in type_names,
       account_id \in account_ids :
        LET call == [op |-> "add_hook_metrics_publisher", session |-> session,
                     type_name |-> type_name, account_id |-> account_id]
        IN  IF add_hook_metrics_publisher_guard(session, type_name, account_id)
            THEN LET publisher == HookMetricsPublisher_init(
                                      session, type_name.val, account_id.val)
                 IN  Registered(call, Append(_publishers, publisher))
            ELSE Registered(call, _publishers)

add_hook_metrics_publisher ==
    add_hook_metrics_publisher_from(OptSessions, OptTypeNames, OptAccountIds)

\* add_hook_metrics_publisher over the wider hook types and account ids
add_hook_metrics_publisher_any ==
    add_hook_metrics_publisher_from({"session"}, OptHookTypeNames, OptHookAccountIds)

SinkOutcomes == [1..Len(_publishers) -> Outcomes]

publish_exception_metric ==
    \E timestamp \in Timestamps, action \in Actions, error \in Errors,
       outcomes \in SinkOutcomes :
        Published([op |-> "publish_exception_metric", timestamp |-> timestamp,
                   action |-> action, error |-> error], outcomes)

publish_invocation_metric ==
    \E timestamp \in Timestamps, action \in Actions, outcomes \in SinkOutcomes :
        Published([op |-> "publish_invocation_metric", timestamp |-> timestamp,
                   action |-> action], outcomes)

publish_duration_metric ==
    \E timestamp \in Timestamps, action \in Actions,
       milliseconds \in Milliseconds, outcomes \in SinkOutcomes :
        Published([op |-> "publish_duration_metric", timestamp |-> timestamp,
                   action |-> action, milliseconds |-> milliseconds], outcomes)

publish_log_delivery_exception_metric ==
    \E timestamp \in Timestamps, error \in Errors, outcomes \in SinkOutcomes :
        Published([op |-> "publish_log_delivery_exception_metric",
                   timestamp |-> timestamp, error |-> error], outcomes)

\* MetricsPublisherProxy.__init__
Init ==
    /\ _publishers = <<>>
    /\ sink = <<>>
    /\ LOG = <<>>
    /\ last = [call |-> [op |-> "__init__"], result |-> "returned", returns |-> <<>>]

Next ==
    \/ add_metrics_publisher
    \/ add_hook_metrics_publisher
    \/ publish_exception_metric
    \/ publish_invocation_metric
    \/ publish_duration_metric
    \/ publish_log_delivery_exception_metric

Spec == Init /\ [][Next]_vars

\* A proxy on which only hook publishers are registered, of any hook type and
\* account id: the specification of the namespace derivation.
NextHooks == add_hook_metrics_publisher_any

SpecHooks == Init /\ [][NextHooks]_vars

\* ------------------------------------------------------------ properties
PublishOps == {"publish_exception_metric", "publish_invocation_metric",
               "publish_duration_metric", "publish_log_delivery_exception_metric"}

\* The last operation was one of the proxy's four publish operations.
IsPublish == last.call.op \in PublishOps

\* The positions in sink of the sink calls made for publisher number i.
SinkCallsOf(i) == {k \in 1..Len(sink) : sink[k].publisher = i}

\* The positions in LOG of the log records emitted for publisher number i.
LogRecordsOf(i) == {k \in 1..Len(LOG) : LOG[k].publisher = i}

IsHook(p) == p.class = "HookMetricsPublisher"

\* C1: when no sink call of a proxy publish operation raises anything but
\* ClientError, the operation calls the sink of every registered publisher,
\* those after a failing one included, and returns without raising.
C1_NoShortCircuit ==
    (IsPublish /\ \A k \in 1..Len(sink) :
                     sink[k].record.outcome \in {"ok", "ClientError"})
    => /\ last.result = "returned"
       /\ \A i \in 1..Len(_publishers) : SinkCallsOf(i) # {}

\* C1 witness: the first of two publishers failed with ClientError and the
\* second was still called.
C1_Witness ==
    /\ IsPublish
    /\ Len(_publishers) = 2
    /\ Len(sink) = 2
    /\ sink[1].publisher = 1 /\ sink[1].record.outcome = "ClientError"
    /\ sink[2].publisher = 2
    /\ last.result = "returned"

\* C2 (as claimed): one proxy publish operation makes exactly one
\* put_metric_data call per registered publisher, in registration order, each
\* with that publisher's namespace; none when no publisher is registered.
C2_OneCallPerPublisher ==
    IsPublish
    => /\ Len(sink) = Len(_publishers)
       /\ \A i \in 1..Len(sink) :
             /\ sink[i].publisher = i
             /\ sink[i].record.Namespace = _publishers[i]._namespace

\* C2 (amended): the calls are one per registered publisher, in registration
\* order and with that publisher's namespace, up to and including the first
\* publisher whose sink call raises an error other than ClientError; all
\* publishers are called when there is no such error.
C2_OneCallPerPublisherUntilRaise ==
    IsPublish
    => /\ Len(sink) <= Len(_publishers)
       /\ \A i \in 1..Len(sink) :
             /\ sink[i].publisher = i
             /\ sink[i].record.Namespace = _publishers[i]._namespace
             /\ (i < Len(sink) => sink[i].record.outcome # "OtherError")
       /\ (Len(sink) < Len(_publishers)
             => Len(sink) >= 1 /\ sink[Len(sink)].record.outcome = "OtherError")

\* C2 witness: two publishers with different namespaces, each called once.
C2_Witness ==
    /\ IsPublish
    /\ Len(_publishers) = 2
    /\ _publishers[1]._namespace # _publishers[2]._namespace
    /\ Len(sink) = 2
    /\ sink[1].record.Namespace = _publishers[1]._namespace
    /\ sink[2].record.Namespace = _publishers[2]._namespace
    /\ sink[1].record.outcome = "ok" /\ sink[2].record.outcome = "ok"

\* An Optional[str] argument is present: not None and not empty.
Present(x) == x.some /\ x.val # <<>>

\* The step appended exactly one publisher to the list.
AppendedOne ==
    /\ Len(_publishers') = Len(_publishers) + 1
    /\ SubSeq(_publishers', 1, Len(_publishers)) = _publishers

\* C3: add_metrics_publisher appends exactly one standard publisher when the
\* session and the type name are present and otherwise leaves the list
\* unchanged; add_hook_metrics_publisher appends exactly one hook publisher
\* when session, type name and account id are present and otherwise leaves
\* the list unchanged; neither raises.
C3_Registration ==
    [][ LET c == last'.call
            new == _publishers'[Len(_publishers')]
            std == /\ AppendedOne
                   /\ ~IsHook(new)
                   /\ new._resource_type = c.type_name.val
            hook == /\ AppendedOne
                    /\ IsHook(new)
                    /\ new._hook_type = c.type_name.val
                    /\ new._account_id = c.account_id.val
        IN  /\ c.op = "add_metrics_publisher"
               => /\ last'.result = "returned"
                  /\ IF c.session # "None" /\ Present(c.type_name)
                     THEN std
                     ELSE _publishers' = _publishers
            /\ c.op = "add_hook_metrics_publisher"
               => /\ last'.result = "returned"
                  /\ IF /\ c.session # "None"
                        /\ Present(c.type_name)
                        /\ Present(c.account_id)
                     THEN hook
                     ELSE _publishers' = _publishers
      ]_vars

\* C3 witness: a hook registration with everything present has just added the
\* second publisher after a standard one.
C3_Witness ==
    /\ last.call.op = "add_hook_metrics_publisher"
    /\ last.call.session # "None"
    /\ Present(last.call.type_name) /\ Present(last.call.account_id)
    /\ Len(_publishers) = 2
    /\ ~IsHook(_publishers[1]) /\ IsHook(_publishers[2])

\* C4 (as claimed): whatever the sink calls do, every proxy publish operation
\* returns normally.
C4_AlwaysReturns == IsPublish => last.result = "returned"

\* C4 (amended): a proxy publish operation returns normally exactly when no
\* sink call it made raised an error other than ClientError; such an error
\* leaves the operation as an exception.
C4_ReturnsUnlessUnrecognized ==
    IsPublish
    => (last.result = "returned"
          <=> \A k \in 1..Len(sink) : sink[k].record.outcome # "OtherError")

\* C4 witness: the second publisher's sink raised an unrecognized error and
\* the proxy operation raised.
C4_Witness ==
    /\ IsPublish
    /\ Len(sink) = 2
    /\ sink[1].record.outcome = "ok"
    /\ sink[2].record.outcome = "OtherError"
    /\ last.result = "raised"

\* C5: a sink call that raises an error other than ClientError makes its
\* publisher's publish operation raise, with no log record for it, and the
\* error leaves the proxy operation too.
C5_UnrecognizedPropagates ==
    IsPublish
    => \A k \in 1..Len(sink) :
          sink[k].record.outcome = "OtherError"
          => /\ last.returns[sink[k].publisher] = "raised"
             /\ LogRecordsOf(sink[k].publisher) = {}
             /\ last.result = "raised"

\* C5 witness: the only publisher's sink raised an unrecognized error.
C5_Witness ==
    /\ IsPublish
    /\ Len(_publishers) = 1
    /\ Len(sink) = 1
    /\ sink[1].record.outcome = "OtherError"
    /\ LOG = <<>>
    /\ last.returns = <<"raised">>

\* C6: every publish operation of a publisher that ran called put_metric_data
\* exactly once, with a batch of one datum; after a ClientError it emitted
\* exactly one log record and made no further call.
C6_OneCallOneDatum ==
    IsPublish
    => \A i \in 1..Len(last.returns) :
          /\ Cardinality(SinkCallsOf(i)) = 1
          /\ \A k \in SinkCallsOf(i) :
                /\ Len(sink[k].record.MetricData) = 1
                /\ sink[k].record.outcome = "ClientError"
                   => Cardinality(LogRecordsOf(i)) = 1

\* C6 witness: a hook publisher's sink raised ClientError, a standard
\* publisher's sink succeeded.
C6_Witness ==
    /\ IsPublish
    /\ Len(_publishers) = 2
    /\ IsHook(_publishers[1]) /\ ~IsHook(_publishers[2])
    /\ Len(sink) = 2
    /\ sink[1].record.outcome = "ClientError"
    /\ sink[2].record.outcome = "ok"
    /\ Len(LOG) = 1

\* The dimension list the claim fixes for publisher p under the last operation.
ExpectedDimensions(p) ==
    LET c == last.call
        action_key == IF IsHook(p) THEN "DimensionKeyInvocationPointType"
                      ELSE "DimensionKeyActionType"
        type_key == IF IsHook(p) THEN "DimensionKeyHookType"
                    ELSE "DimensionKeyResourceType"
        type == IF IsHook(p) THEN p._hook_type ELSE p._resource_type
        slot == IF c.op = "publish_log_delivery_exception_metric"
                THEN "ProviderLogDelivery" ELSE c.action.name
        exception == IF c.op \in {"publish_exception_metric",
                                  "publish_log_delivery_exception_metric"}
                     THEN << [Name |-> "DimensionKeyExceptionType",
                              Value |-> <<"<class '", c.error.type, "'>">>] >>
                     ELSE <<>>
    IN  << [Name |-> action_key, Value |-> slot] >> \o exception
           \o << [Name |-> type_key, Value |-> type] >>

\* C7: every datum sent carries the metric name, unit and value fixed for the
\* operation (invocation: HandlerInvocationCount, Count, 1; duration:
\* HandlerInvocationDuration, Milliseconds, the caller's milliseconds; both
\* exception operations: HandlerException, Count, 1) and the dimensions fixed
\* for the operation and the publisher's variant.
C7_MetricShape ==
    IsPublish
    => \A k \in 1..Len(sink) :
          LET d == sink[k].record.MetricData[1]
              p == _publishers[sink[k].publisher]
              op == last.call.op
          IN  /\ d.MetricName =
                    CASE op = "publish_invocation_metric" -> "HandlerInvocationCount"
                      [] op = "publish_duration_metric" -> "HandlerInvocationDuration"
                      [] OTHER -> "HandlerException"
              /\ d.Unit = IF op = "publish_duration_metric"
                          THEN "Milliseconds" ELSE "Count"
              /\ d.Value = IF op = "publish_duration_metric"
                           THEN last.call.milliseconds ELSE 1
              /\ \A j \in 1..Len(d.Dimensions) :
                    d.Dimensions[j].Name \in
                       IF IsHook(p)
                       THEN {"DimensionKeyInvocationPointType",
                             "DimensionKeyExceptionType", "DimensionKeyHookType"}
                       ELSE {"DimensionKeyActionType",
                             "DimensionKeyExceptionType", "DimensionKeyResourceType"}
              /\ d.Dimensions = ExpectedDimensions(p)

\* C7 witness: a duration metric of 250 ms went to a standard and to a hook
\* publisher.
C7_Witness ==
    /\ last.call.op = "publish_duration_metric"
    /\ last.call.milliseconds = 250
    /\ Len(sink) = 2
    /\ ~IsHook(_publishers[1]) /\ IsHook(_publishers[2])
    /\ sink[2].record.MetricData[1].Value = 250

\* The namespace the constructor of publisher p computes.
ConstructedNamespace(p) ==
    IF IsHook(p)
    THEN <<"A", "W", "S", "/", "C", "l", "o", "u", "d",
           "F", "o", "r", "m", "a", "t", "i", "o", "n", "/">>
         \o p._account_id \o <<"/">> \o str_replace(p._hook_type)
    ELSE <<"A", "W", "S", "/", "C", "l", "o", "u", "d",
           "F", "o", "r", "m", "a", "t", "i", "o", "n", "/">>
         \o str_replace(p._resource_type)

\* C8: no operation changes the namespace of a registered publisher, and every
\* sink call carries the namespace computed at its publisher's construction:
\* root/type for a standard publisher, root/account/type for a hook publisher.
C8_NamespaceFixed ==
    [][ /\ \A i \in 1..Len(_publishers) :
              _publishers'[i]._namespace = _publishers[i]._namespace
        /\ \A k \in 1..Len(sink') :
              sink'[k].record.Namespace =
                 ConstructedNamespace(_publishers[sink'[k].publisher])
      ]_vars

\* C8 witness: a hook publisher's sink was called after the sink of the
\* publisher before it had failed.
C8_Witness ==
    /\ IsPublish
    /\ Len(sink) = 2
    /\ sink[1].record.outcome = "ClientError"
    /\ IsHook(_publishers[2])
    /\ sink[2].record.Namespace = _publishers[2]._namespace

HookPublishers == {i \in 1..Len(_publishers) : IsHook(_publishers[i])}

NoSlash(s) == \A k \in 1..Len(s) : s[k] # "/"

\* C9 (as claimed): two hook publishers whose (account id, hook type) pairs
\* differ have different namespaces.
C9_NamespaceInjective ==
    \A i, j \in HookPublishers :
       <<_publishers[i]._account_id, _publishers[i]._hook_type>>
          # <<_publishers[j]._account_id, _publishers[j]._hook_type>>
       => _publishers[i]._namespace # _publishers[j]._namespace

\* C9 (amended): two hook publishers whose account ids and hook types contain
\* no "/" and whose (account id, hook type) pairs differ have different
\* namespaces.
C9_NamespaceInjectiveNoSlash ==
    \A i, j \in HookPublishers :
       (/\ NoSlash(_publishers[i]._account_id) /\ NoSlash(_publishers[i]._hook_type)
        /\ NoSlash(_publishers[j]._account_id) /\ NoSlash(_publishers[j]._hook_type)
        /\ <<_publishers[i]._account_id, _publishers[i]._hook_type>>
              # <<_publishers[j]._account_id, _publishers[j]._hook_type>>)
       => _publishers[i]._namespace # _publishers[j]._namespace

\* C9 witness: two hook publishers of one hook type and different accounts.
C9_Witness ==
    /\ Len(_publishers) = 2
    /\ IsHook(_publishers[1]) /\ IsHook(_publishers[2])
    /\ _publishers[1]._hook_type = _publishers[2]._hook_type
    /\ NoSlash(_publishers[1]._hook_type)
    /\ _publishers[1]._account_id = <<"1">>
    /\ _publishers[2]._account_id = <<"2">>
    /\ _publishers[1]._namespace # _publishers[2]._namespace

\* The identity a registration needs is all there in publisher p.
FullyIdentified(p) ==
    /\ p._client.session # "None"
    /\ p._resource_type # <<>>
    /\ IsHook(p) => p._hook_type # <<>> /\ p._account_id # <<>>

\* C10: the sink calls of a step go only to publishers that were in the list
\* when the step began, each through that publisher's own client, and never to
\* a publisher whose registration lacked a session, type name or account id;
\* a registration itself makes no sink call.
C10_OnlyRegistered ==
    [][ /\ \A k \in 1..Len(sink') :
              /\ sink'[k].publisher \in 1..Len(_publishers)
              /\ sink'[k].record.client = _publishers[sink'[k].publisher]._client
              /\ FullyIdentified(_publishers[sink'[k].publisher])
        /\ _publishers' # _publishers => sink' = <<>>
        /\ \A i \in 1..Len(_publishers') : FullyIdentified(_publishers'[i])
      ]_vars

\* C10 witness: both of two registered publishers received an exception
\* metric.
C10_Witness ==
    /\ last.call.op = "publish_exception_metric"
    /\ Len(_publishers) = 2
    /\ SinkCallsOf(1) # {} /\ SinkCallsOf(2) # {}

====
